---- MODULE Spec2Model ----
(***************************************************************************)
(* Model of the asynchronous job queue in                                  *)
(* services/workflows/job_queue.py (class JobQueue) running on one asyncio *)
(* event loop.  A coroutine runs without interruption from one suspension  *)
(* point (an await that really blocks) to the next, so every action below  *)
(* is one such uninterrupted run.                                          *)
(*                                                                         *)
(* Several specifications share the module.  Spec (FairSpec with          *)
(* fairness) is the queue with up to MaxJobs jobs, the executor call       *)
(* taken as one step.  LifecycleSpec follows the dispatcher tasks alone,   *)
(* with start() and stop() calls overlapping.  ExecSpec follows one job    *)
(* through WorkflowExecutor.execute_workflow                               *)
(* (services/workflows/executor.py) await by await.  ResubmitSpec is the   *)
(* queue when one id is submitted several times.  GraphSpec is the         *)
(* node-graph executor of workflows/executor.py and OrchSpec the           *)
(* prompt-driven orchestrator of services/workflow_orchestrator.py.        *)
(***************************************************************************)
EXTENDS Integers, Sequences, FiniteSets, TLC

\* ----- bounds of the model -----
MaxJobs == 3
MaxK == 2

JobIds == 1..MaxJobs

VARIABLES
    jobs,            \* self.jobs: dict job_id -> Job
    max_concurrent,  \* self.max_concurrent
    running_tasks,   \* keys of self._running_tasks
    queue,           \* self._queue (asyncio.Queue of job ids)
    worker_task,     \* self._worker_task: "None" or "task"
    worker,          \* the coroutine _worker(): its position, the job id it holds, cancel request
    task,            \* the asyncio.Task of _execute_job for each job id
    task_cancel,     \* job ids whose execution task has a cancel() request pending
    stopping,        \* a stop() call is suspended at `await self._worker_task`
    stop_running,    \* history: the jobs Running when that stop() was called, until they end
    cancel_called    \* history: the jobs cancel_job was called for, until their execution ends

vars == <<jobs, max_concurrent, running_tasks, queue, worker_task, worker,
          task, task_cancel, stopping, stop_running, cancel_called>>

\* The dispatcher's life cycle is modelled a second time further down, with any
\* number of start() and stop() calls overlapping, in variables of its own,
\* which the model of the queue leaves alone.
VARIABLES
    lc_worker_task,  \* self._worker_task: NoTask or the id of a dispatcher task
    lc_tasks,        \* every dispatcher task create_task has made: position, cancel request
    lc_stops         \* per dispatcher task, the stop() calls suspended at `await self._worker_task`

lc_vars == <<lc_worker_task, lc_tasks, lc_stops>>

\* One execution of WorkflowExecutor.execute_workflow, the call _execute_job
\* awaits, is modelled stage by stage further down for a single job; the
\* model of the queue takes the call as one step and leaves these alone.
VARIABLES
    workflow,        \* the dict job.workflow_json, which the executor updates in place
    xpc,             \* the await at which execute_workflow is suspended
    keyframe_tasks,  \* the imagen.generate_image calls handed to asyncio.gather, per shot
    calls,           \* history: the capability calls issued so far, per stage
    stage_log,       \* history: the stage functions entered and returned, in order
    callback,        \* whether execute_workflow was called with a callback
    events,          \* the calls callback(stage, phase, percent) made so far, in order
    reader           \* the Job objects get_job / list_jobs returned to a reader, by job
                     \* id, each with the record as it was when it was returned

ex_vars == <<workflow, xpc, keyframe_tasks, calls, stage_log, callback, events, reader>>

\* The node-graph executor (workflows/executor.py) and the prompt-driven
\* orchestrator (services/workflow_orchestrator.py) are separate classes with
\* state of their own, each modelled further down by a specification of its own.
VARIABLES
    gx_workflow,     \* workflow.nodes of the stored workflow: a list of nodes (id, dependencies)
    execution,       \* the WorkflowExecution record, with the writes to node_states in order
    workflows,       \* WorkflowOrchestrator.workflows: dict workflow_id -> workflow dict
    wf_tasks         \* the task of _execute_workflow for each workflow id: the await it is at

gx_vars == <<gx_workflow, execution>>

wo_vars == <<workflows, wf_tasks>>

\* The queue is modelled once more further down for callers that submit an id
\* a second time: a Job object is then no longer the same thing as its id, and
\* an id can have more than one execution task.
VARIABLES
    dq_objects,      \* every Job object submit_job has created, in the order of creation
    dq_jobs,         \* self.jobs: job_id -> the Job object registered under it
    dq_queue,        \* self._queue
    dq_running,      \* keys of self._running_tasks
    dq_tasks,        \* every execution task created: the Job object it was given, its position
    dq_worker        \* the dispatcher: position, the id and the Job object it holds

dq_vars == <<dq_objects, dq_jobs, dq_queue, dq_running, dq_tasks, dq_worker>>

all_vars == <<vars, lc_vars, ex_vars, gx_vars, wo_vars, dq_vars>>

\* ----- JobStatus -----
QUEUED == "queued"
RUNNING == "running"
COMPLETED == "completed"
FAILED == "failed"
CANCELLED == "cancelled"

JobStatus == {QUEUED, RUNNING, COMPLETED, FAILED, CANCELLED}
Terminal == {COMPLETED, FAILED, CANCELLED}

\* Optional fields hold "None" until they are assigned.
None == "None"

\* dataclass Job with its defaults; created_at is the submission instant,
\* kept as the number of jobs registered before it plus one.
Job(id, now) ==
    [id |-> id, status |-> QUEUED, progress |-> 0, result |-> None,
     error |-> None, created_at |-> now, started_at |-> None,
     completed_at |-> None]

IdleWorker == [pc |-> "none", job_id |-> 0, cancel |-> FALSE]

\* JobQueue.__init__ (max_concurrent is the constructor's argument)
Init ==
    /\ jobs = <<>>
    /\ max_concurrent \in 1..MaxK
    /\ running_tasks = {}
    /\ queue = <<>>
    /\ worker_task = None
    /\ worker = IdleWorker
    /\ task = [j \in JobIds |-> "none"]
    /\ task_cancel = {}
    /\ stopping = FALSE
    /\ stop_running = {}
    /\ cancel_called = {}

\* ----- start() -----
Start ==
    /\ IF worker_task = None
       THEN /\ worker_task' = "task"
            /\ worker' = [pc |-> "new", job_id |-> 0, cancel |-> FALSE]
       ELSE UNCHANGED <<worker_task, worker>>
    /\ UNCHANGED <<jobs, max_concurrent, running_tasks, queue, task,
                   task_cancel, stopping, stop_running, cancel_called>>

\* ----- submit_job(job_id, workflow_json) -----
\* The caller (pages/workflow_create.py) passes a fresh uuid4 for every job.
FreshIds == {Cardinality(DOMAIN jobs) + 1} \cap JobIds

\* variant: a submission is refused while no dispatcher task is set
SubmitJob_NeedsDispatcher(job_id) ==
    /\ worker_task # None
    /\ jobs' = (job_id :> Job(job_id, Cardinality(DOMAIN jobs) + 1)) @@ jobs
    /\ queue' = Append(queue, job_id)
    /\ UNCHANGED <<max_concurrent, running_tasks, worker_task, worker, task,
                   task_cancel, stopping, stop_running, cancel_called>>

\* variant: the queue is bounded (asyncio.Queue(maxsize)), so put() waits
SubmitJob_Bounded(job_id) ==
    /\ Len(queue) < max_concurrent
    /\ jobs' = (job_id :> Job(job_id, Cardinality(DOMAIN jobs) + 1)) @@ jobs
    /\ queue' = Append(queue, job_id)
    /\ UNCHANGED <<max_concurrent, running_tasks, worker_task, worker, task,
                   task_cancel, stopping, stop_running, cancel_called>>

SubmitJob(job_id) ==
    /\ jobs' = (job_id :> Job(job_id, Cardinality(DOMAIN jobs) + 1)) @@ jobs
    /\ queue' = Append(queue, job_id)
    /\ UNCHANGED <<max_concurrent, running_tasks, worker_task, worker, task,
                   task_cancel, stopping, stop_running, cancel_called>>

\* ----- cancel_job(job_id) -----
\* the value cancel_job(job_id) returns when called in the current state
CancelJobResult(job_id) ==
    IF job_id \notin DOMAIN jobs THEN FALSE ELSE TRUE

\* variant: cancel_job marks a Running job Cancelled itself
CancelJob_WritesRunning(job_id) ==
    IF job_id \notin DOMAIN jobs
    THEN UNCHANGED vars
    ELSE /\ IF jobs[job_id].status = RUNNING
            THEN /\ task_cancel' = IF job_id \in running_tasks /\ task[job_id] # "done"
                                   THEN task_cancel \cup {job_id}
                                   ELSE task_cancel
                 /\ jobs' = [jobs EXCEPT ![job_id].status = CANCELLED]
            ELSE IF jobs[job_id].status = QUEUED
            THEN /\ jobs' = [jobs EXCEPT ![job_id].status = CANCELLED]
                 /\ task_cancel' = task_cancel
            ELSE UNCHANGED <<jobs, task_cancel>>
         /\ cancel_called' = IF task[job_id] # "done"
                             THEN cancel_called \cup {job_id}
                             ELSE cancel_called
         /\ UNCHANGED <<max_concurrent, running_tasks, queue, worker_task,
                        worker, task, stopping, stop_running>>

CancelJob(job_id) ==
    IF job_id \notin DOMAIN jobs
    THEN UNCHANGED vars
    ELSE /\ IF jobs[job_id].status = RUNNING
            THEN \* task.cancel(): a done task ignores it, any other task gets
                 \* CancelledError thrown in at its next step
                 /\ task_cancel' = IF job_id \in running_tasks /\ task[job_id] # "done"
                                   THEN task_cancel \cup {job_id}
                                   ELSE task_cancel
                 /\ jobs' = jobs
            ELSE IF jobs[job_id].status = QUEUED
            THEN /\ jobs' = [jobs EXCEPT ![job_id].status = CANCELLED]
                 /\ task_cancel' = task_cancel
            ELSE UNCHANGED <<jobs, task_cancel>>
         /\ cancel_called' = IF task[job_id] # "done"
                             THEN cancel_called \cup {job_id}
                             ELSE cancel_called
         /\ UNCHANGED <<max_concurrent, running_tasks, queue, worker_task,
                        worker, task, stopping, stop_running>>

\* ----- _worker() -----
\* variants of the capacity test: off by one in either direction
NoFreeSlot_Lenient(rt) == Cardinality(rt) > max_concurrent

NoFreeSlot_Strict(rt) == Cardinality(rt) + 1 >= max_concurrent

\* `while len(self._running_tasks) >= self.max_concurrent`
NoFreeSlot(rt) == Cardinality(rt) >= max_concurrent

\* One uninterrupted run of the `while True` loop from `await self._queue.get()`:
\* Queue.get() returns at once while the queue is not empty, so the loop keeps
\* dispatching until the queue is empty (suspends in get) or no slot is free
\* (suspends in asyncio.sleep holding the job id it has taken).
RECURSIVE WorkerLoop(_, _, _)
WorkerLoop(q, rt, tk) ==
    IF q = <<>>
    THEN [pc |-> "get", job_id |-> 0, queue |-> q, running_tasks |-> rt, task |-> tk]
    ELSE LET job_id == Head(q) IN
         IF job_id \notin DOMAIN jobs
         THEN WorkerLoop(Tail(q), rt, tk)
         ELSE IF NoFreeSlot(rt)
         THEN [pc |-> "wait", job_id |-> job_id, queue |-> Tail(q),
               running_tasks |-> rt, task |-> tk]
         ELSE WorkerLoop(Tail(q), rt \cup {job_id}, [tk EXCEPT ![job_id] = "new"])

\* The dispatcher starts (first step of the task) or wakes up in get().
WorkerRun ==
    /\ ~worker.cancel
    /\ \/ worker.pc = "new"
       \/ worker.pc = "get" /\ queue # <<>>
    /\ LET r == WorkerLoop(queue, running_tasks, task) IN
         /\ worker' = [worker EXCEPT !.pc = r.pc, !.job_id = r.job_id]
         /\ queue' = r.queue
         /\ running_tasks' = r.running_tasks
         /\ task' = r.task
    /\ UNCHANGED <<jobs, max_concurrent, worker_task, task_cancel, stopping,
                   stop_running, cancel_called>>

\* The dispatcher wakes up from asyncio.sleep(0.5) holding a job id; when no
\* slot is free it sleeps again, which changes nothing.
WorkerWake ==
    /\ ~worker.cancel
    /\ worker.pc = "wait"
    /\ ~NoFreeSlot(running_tasks)
    /\ LET r == WorkerLoop(queue, running_tasks \cup {worker.job_id},
                           [task EXCEPT ![worker.job_id] = "new"]) IN
         /\ worker' = [worker EXCEPT !.pc = r.pc, !.job_id = r.job_id]
         /\ queue' = r.queue
         /\ running_tasks' = r.running_tasks
         /\ task' = r.task
    /\ UNCHANGED <<jobs, max_concurrent, worker_task, task_cancel, stopping,
                   stop_running, cancel_called>>

\* CancelledError reaches the dispatcher at its suspension point: `break`.
\* The job id it was holding in the sleep loop is a local variable.
WorkerCancelled ==
    /\ worker.cancel
    /\ worker.pc \in {"new", "get", "wait"}
    /\ worker' = [pc |-> "done", job_id |-> 0, cancel |-> FALSE]
    /\ UNCHANGED <<jobs, max_concurrent, running_tasks, queue, worker_task,
                   task, task_cancel, stopping, stop_running, cancel_called>>

\* ----- _execute_job(job, executor) -----
\* asyncio runs the first step of tasks in the order create_task made them;
\* the dispatcher creates them in the order it takes ids from the queue.
NextToStart(j) ==
    /\ task[j] = "new"
    /\ \A i \in JobIds : task[i] = "new" => jobs[j].created_at <= jobs[i].created_at

\* variant: the cleanup is skipped
ReleaseSlot_Leak(rt, j) == rt

\* `finally: if job.id in self._running_tasks: del self._running_tasks[job.id]`
ReleaseSlot(rt, j) == rt \ {j}

\* First step of the task: up to the await of executor.execute_workflow.
\* A task cancelled before its first step never enters the coroutine body.
JobStart(j) ==
    /\ NextToStart(j)
    /\ IF j \in task_cancel
       THEN /\ task' = [task EXCEPT ![j] = "done"]
            /\ task_cancel' = task_cancel \ {j}
            /\ jobs' = jobs
            /\ cancel_called' = cancel_called \ {j}
       ELSE /\ task' = [task EXCEPT ![j] = "exec"]
            /\ jobs' = [jobs EXCEPT ![j].status = RUNNING, ![j].started_at = "set"]
            /\ UNCHANGED <<task_cancel, cancel_called>>
    /\ UNCHANGED <<max_concurrent, running_tasks, queue, worker_task, worker,
                   stopping, stop_running>>

\* the execution of job j has ended: the history variables forget the job
Forget(j) ==
    /\ stop_running' = stop_running \ {j}
    /\ cancel_called' = cancel_called \ {j}

\* variant: the progress is stored as a percentage
JobCompleted_Percent(j) ==
    /\ task[j] = "exec"
    /\ j \notin task_cancel
    /\ jobs' = [jobs EXCEPT ![j].status = COMPLETED, ![j].progress = 100,
                            ![j].result = "result", ![j].completed_at = "set"]
    /\ running_tasks' = ReleaseSlot(running_tasks, j)
    /\ task' = [task EXCEPT ![j] = "done"]
    /\ Forget(j)
    /\ UNCHANGED <<max_concurrent, queue, worker_task, worker, task_cancel, stopping>>

\* variant: the success path records the status and not yet the result
JobCompleted_StatusFirst(j) ==
    /\ task[j] = "exec"
    /\ j \notin task_cancel
    /\ jobs' = [jobs EXCEPT ![j].status = COMPLETED, ![j].completed_at = "set"]
    /\ running_tasks' = ReleaseSlot(running_tasks, j)
    /\ task' = [task EXCEPT ![j] = "done"]
    /\ Forget(j)
    /\ UNCHANGED <<max_concurrent, queue, worker_task, worker, task_cancel, stopping>>

\* execute_workflow returned a result: `job.progress = 1.0` (the float is kept
\* as the integer 1, Job's default 0.0 as 0; the code assigns no other value)
JobCompleted(j) ==
    /\ task[j] = "exec"
    /\ j \notin task_cancel
    /\ jobs' = [jobs EXCEPT ![j].status = COMPLETED, ![j].progress = 1,
                            ![j].result = "result", ![j].completed_at = "set"]
    /\ running_tasks' = ReleaseSlot(running_tasks, j)
    /\ task' = [task EXCEPT ![j] = "done"]
    /\ Forget(j)
    /\ UNCHANGED <<max_concurrent, queue, worker_task, worker, task_cancel, stopping>>

\* variant: the failure path also stores the workflow as the job's result
JobFailedWith_KeepsResult(j, e) ==
    /\ task[j] = "exec"
    /\ j \notin task_cancel
    /\ jobs' = [jobs EXCEPT ![j].status = FAILED, ![j].error = e,
                            ![j].result = "result", ![j].completed_at = "set"]
    /\ running_tasks' = ReleaseSlot(running_tasks, j)
    /\ task' = [task EXCEPT ![j] = "done"]
    /\ Forget(j)
    /\ UNCHANGED <<max_concurrent, queue, worker_task, worker, task_cancel, stopping>>

\* variant: the exception of one execution also ends the dispatcher loop
JobFailedWith_StopsDispatcher(j, e) ==
    /\ task[j] = "exec"
    /\ j \notin task_cancel
    /\ jobs' = [jobs EXCEPT ![j].status = FAILED, ![j].error = e,
                            ![j].completed_at = "set"]
    /\ running_tasks' = ReleaseSlot(running_tasks, j)
    /\ task' = [task EXCEPT ![j] = "done"]
    /\ Forget(j)
    /\ worker' = IF worker.pc \in {"new", "get", "wait"}
                 THEN [pc |-> "done", job_id |-> 0, cancel |-> FALSE]
                 ELSE worker
    /\ UNCHANGED <<max_concurrent, queue, worker_task, task_cancel, stopping>>

\* execute_workflow raised the Exception e: `job.error = str(e)`
JobFailedWith(j, e) ==
    /\ task[j] = "exec"
    /\ j \notin task_cancel
    /\ jobs' = [jobs EXCEPT ![j].status = FAILED, ![j].error = e,
                            ![j].completed_at = "set"]
    /\ running_tasks' = ReleaseSlot(running_tasks, j)
    /\ task' = [task EXCEPT ![j] = "done"]
    /\ Forget(j)
    /\ UNCHANGED <<max_concurrent, queue, worker_task, worker, task_cancel, stopping>>

\* execute_workflow raised an Exception
JobFailed(j) == JobFailedWith(j, "error")

\* variant: the cancellation is recorded like any other exception
JobCancelled_AsFailure(j) ==
    /\ task[j] = "exec"
    /\ j \in task_cancel
    /\ jobs' = [jobs EXCEPT ![j].status = FAILED, ![j].error = "error",
                            ![j].completed_at = "set"]
    /\ running_tasks' = ReleaseSlot(running_tasks, j)
    /\ task' = [task EXCEPT ![j] = "done"]
    /\ task_cancel' = task_cancel \ {j}
    /\ Forget(j)
    /\ UNCHANGED <<max_concurrent, queue, worker_task, worker, stopping>>

\* variant: the cancellation path also stores the text of the exception
JobCancelled_WithError(j) ==
    /\ task[j] = "exec"
    /\ j \in task_cancel
    /\ jobs' = [jobs EXCEPT ![j].status = CANCELLED, ![j].error = "error",
                            ![j].completed_at = "set"]
    /\ running_tasks' = ReleaseSlot(running_tasks, j)
    /\ task' = [task EXCEPT ![j] = "done"]
    /\ task_cancel' = task_cancel \ {j}
    /\ Forget(j)
    /\ UNCHANGED <<max_concurrent, queue, worker_task, worker, stopping>>

\* CancelledError is thrown into the task at the await
JobCancelled(j) ==
    /\ task[j] = "exec"
    /\ j \in task_cancel
    /\ jobs' = [jobs EXCEPT ![j].status = CANCELLED, ![j].completed_at = "set"]
    /\ running_tasks' = ReleaseSlot(running_tasks, j)
    /\ task' = [task EXCEPT ![j] = "done"]
    /\ task_cancel' = task_cancel \ {j}
    /\ Forget(j)
    /\ UNCHANGED <<max_concurrent, queue, worker_task, worker, stopping>>

\* ----- stop() -----
\* variant: stop() also cancels every execution in flight
StopCall_KillsJobs ==
    /\ ~stopping
    /\ worker_task # None
    /\ worker' = [worker EXCEPT !.cancel = (worker.pc # "done")]
    /\ stopping' = TRUE
    /\ stop_running' = {j \in DOMAIN jobs : jobs[j].status = RUNNING}
    /\ task_cancel' = task_cancel \cup {j \in running_tasks : task[j] = "exec"}
    /\ UNCHANGED <<jobs, max_concurrent, running_tasks, queue, worker_task,
                   task, cancel_called>>

\* up to `await self._worker_task` (one stop() call is in progress at a time)
StopCall ==
    /\ ~stopping
    /\ worker_task # None
    /\ worker' = [worker EXCEPT !.cancel = (worker.pc # "done")]
    /\ stopping' = TRUE
    /\ stop_running' = {j \in DOMAIN jobs : jobs[j].status = RUNNING}
    /\ UNCHANGED <<jobs, max_concurrent, running_tasks, queue, worker_task,
                   task, task_cancel, cancel_called>>

\* the awaited dispatcher task is done: `self._worker_task = None`
StopReturn ==
    /\ stopping
    /\ worker.pc = "done"
    /\ worker_task' = None
    /\ worker' = IdleWorker
    /\ stopping' = FALSE
    /\ stop_running' = {}
    /\ UNCHANGED <<jobs, max_concurrent, running_tasks, queue, task,
                   task_cancel, cancel_called>>

\* a step of the dispatcher task (at most one of the three is enabled)
WorkerStep == WorkerRun \/ WorkerWake \/ WorkerCancelled

\* a step of the execution task of job j
JobStep(j) == JobStart(j) \/ JobCompleted(j) \/ JobFailed(j) \/ JobCancelled(j)

\* ----- one execution of WorkflowExecutor.execute_workflow: its data -----
MaxShots == 2

ShotIds == 1..MaxShots

\* the stage functions in the order execute_workflow awaits them
Stages == <<"keyframes", "videos", "audio", "composition", "export">>

\* the three formats of _export_formats
Formats == <<"youtube", "tiktok", "instagram">>

\* workflow['progress'] as the orchestrator creates it: no entry for the export
StageProgress(v) ==
    [planning |-> "complete", keyframes |-> v, videos |-> v, audio |-> v,
     composition |-> v]

\* The workflow dict the orchestrator returns for a plan of `shots` shots, with
\* or without a voiceover in its audio spec.  keyframe_uri and video_uri are
\* the shots whose dict has that key, outputs the keys of workflow['outputs'].
Plan(shots, voiceover) ==
    [kind |-> "plan", shots |-> shots, voiceover |-> voiceover,
     status |-> "planned", error |-> None, progress |-> StageProgress("pending"),
     keyframe_uri |-> {}, video_uri |-> {}, voiceover_uri |-> FALSE,
     outputs |-> {}]

\* A dict with none of these keys: kind "empty" is the empty dict {} passed to
\* submit_job, kind "none" stands for no submission yet.
NoPlan(kind) ==
    [kind |-> kind, shots |-> 0, voiceover |-> FALSE,
     status |-> None, error |-> None, progress |-> StageProgress(None),
     keyframe_uri |-> {}, video_uri |-> {}, voiceover_uri |-> FALSE,
     outputs |-> {}]

Malformed == {NoPlan("empty")}

Workflows ==
    {Plan(n, v) : n \in ShotIds, v \in BOOLEAN} \cup Malformed

NoCalls == [s \in {Stages[k] : k \in DOMAIN Stages} |-> 0]

ExecInit ==
    /\ workflow = NoPlan("none")
    /\ xpc = [at |-> "none", i |-> 0]
    /\ keyframe_tasks = [i \in ShotIds |-> "none"]
    /\ calls = NoCalls
    /\ stage_log = <<>>
    /\ callback = FALSE
    /\ events = <<>>
    /\ reader = <<>>

\* ----- the dispatcher's life cycle, start() and stop() calls overlapping -----
MaxDispatchers == 3
MaxStops == 2

DispatcherIds == 1..MaxDispatchers

\* `self._worker_task = None`
NoTask == 0

LcInit ==
    /\ lc_worker_task = NoTask
    /\ lc_tasks = [t \in DispatcherIds |-> [pc |-> "none", cancel |-> FALSE]]
    /\ lc_stops = [t \in DispatcherIds |-> 0]

\* the dispatcher tasks whose loop has not ended
LiveDispatchers == {t \in DispatcherIds : lc_tasks[t].pc \in {"new", "loop"}}

\* the id the next create_task(self._worker()) gets
NewDispatcher == Cardinality({t \in DispatcherIds : lc_tasks[t].pc # "none"}) + 1

\* the number of stop() calls suspended at their await
PendingStops ==
    Cardinality({p \in DispatcherIds \X (1..MaxStops) : p[2] <= lc_stops[p[1]]})

\* start(): no await, so the whole call is one step
LcStart ==
    /\ IF lc_worker_task = NoTask
       THEN /\ NewDispatcher \in DispatcherIds
            /\ lc_tasks' = [lc_tasks EXCEPT ![NewDispatcher] = [pc |-> "new", cancel |-> FALSE]]
            /\ lc_worker_task' = NewDispatcher
       ELSE UNCHANGED <<lc_worker_task, lc_tasks>>
    /\ UNCHANGED lc_stops

\* stop() up to its await.  With no dispatcher task it returns at once.  On a
\* task that is already done cancel() does nothing and the await does not
\* suspend, so the call runs through to `self._worker_task = None`.
LcStop ==
    IF lc_worker_task = NoTask
    THEN UNCHANGED lc_vars
    ELSE IF lc_tasks[lc_worker_task].pc = "done"
    THEN /\ lc_worker_task' = NoTask
         /\ UNCHANGED <<lc_tasks, lc_stops>>
    ELSE /\ PendingStops < MaxStops
         /\ lc_tasks' = [lc_tasks EXCEPT ![lc_worker_task].cancel = TRUE]
         /\ lc_stops' = [lc_stops EXCEPT ![lc_worker_task] = @ + 1]
         /\ UNCHANGED lc_worker_task

\* The first step of dispatcher task t takes it into the loop, where it waits
\* in `await self._queue.get()`; a cancel request ends it at its next step.
LcWorkerStep(t) ==
    /\ lc_tasks[t].pc \in {"new", "loop"}
    /\ IF lc_tasks[t].cancel
       THEN lc_tasks' = [lc_tasks EXCEPT ![t] = [pc |-> "done", cancel |-> FALSE]]
       ELSE /\ lc_tasks[t].pc = "new"
            /\ lc_tasks' = [lc_tasks EXCEPT ![t].pc = "loop"]
    /\ UNCHANGED <<lc_worker_task, lc_stops>>

\* a stop() call that awaited task t resumes: `self._worker_task = None`
LcStopReturn(t) ==
    /\ lc_stops[t] > 0
    /\ lc_tasks[t].pc = "done"
    /\ lc_stops' = [lc_stops EXCEPT ![t] = @ - 1]
    /\ lc_worker_task' = NoTask
    /\ UNCHANGED lc_tasks

\* ----- the node-graph executor: workflows/executor.py -----
MaxNodes == 3

NodeIds == 1..MaxNodes

\* the orders in which workflow.nodes can list the nodes
NodeOrders ==
    {p \in [1..MaxNodes -> NodeIds] : \A a, b \in 1..MaxNodes : p[a] = p[b] => a = b}

\* WorkflowNode.dependencies for each node, without a cycle: some order of the
\* nodes puts every node behind the nodes it depends on
AcyclicDependencies ==
    {d \in [NodeIds -> SUBSET NodeIds] :
        \E p \in NodeOrders :
           \A k \in 1..MaxNodes : d[p[k]] \subseteq {p[m] : m \in 1..(k - 1)}}

\* workflow.nodes of the workflows a user can store
GraphWorkflows ==
    {[k \in 1..MaxNodes |-> [id |-> p[k], dependencies |-> d[p[k]]]] :
        p \in NodeOrders, d \in AcyclicDependencies}

\* `return workflow.nodes`
TopologicalSort(nodes) == nodes

\* the writes of _execute_node to execution.node_states for the nodes of the
\* list, in order: RUNNING, then COMPLETED, node after node
NodeWrites(nodes) ==
    [k \in 1..(2 * Len(nodes)) |->
        <<nodes[(k + 1) \div 2].id, IF k % 2 = 1 THEN RUNNING ELSE COMPLETED>>]

NoExecution ==
    [status |-> None, node_states |-> <<>>, error |-> None, completed_at |-> None,
     writes |-> <<>>]

GraphInit ==
    /\ gx_workflow = <<>>
    /\ execution = NoExecution

\* execute_workflow(workflow_id, user_id) on a stored workflow.  No await of
\* the call suspends (_execute_node awaits nothing), so the call is one step,
\* from the creation of the execution record to its last save; nothing in the
\* try raises.
GxExecuteWorkflow(nodes) ==
    /\ gx_workflow' = nodes
    /\ LET sorted == TopologicalSort(nodes) IN
         execution' =
            [status |-> COMPLETED,
             node_states |-> [n \in {sorted[k].id : k \in 1..Len(sorted)} |-> COMPLETED],
             error |-> None,
             completed_at |-> "set",
             writes |-> NodeWrites(sorted)]

\* ----- the prompt-driven orchestrator: services/workflow_orchestrator.py -----
MaxWorkflows == 2

WorkflowIds == 1..MaxWorkflows

PENDING == "pending"

\* the `model` argument of create_workflow: the three _generate_video knows,
\* and one it does not
VideoModels == {"veo-2", "kling-1.6", "wan-2.6"}
Models == VideoModels \cup {"sora"}

\* the list _scene_breakdown returns has three shots
Scenes == <<1, 2, 3>>

\* the names of the steps in the order _execute_workflow appends them
StepNames ==
    <<"gemini_director", "scene_breakdown", "imagen_generation",
      "video_generation", "audio_generation", "final_assembly">>

OrchInit ==
    /\ workflows = <<>>
    /\ wf_tasks = [w \in WorkflowIds |-> [at |-> "none", i |-> 0]]

\* create_workflow(prompt, duration, style, model): the dict is registered
\* PENDING and the task of _execute_workflow created
CreateWorkflow(model) ==
    LET workflow_id == Cardinality(DOMAIN workflows) + 1 IN
    /\ workflow_id \in WorkflowIds
    /\ workflows' = (workflow_id :>
                        [id |-> workflow_id, status |-> PENDING, model |-> model,
                         steps |-> <<>>, results |-> {}, error |-> None,
                         completed_at |-> None]) @@ workflows
    /\ wf_tasks' = [wf_tasks EXCEPT ![workflow_id] = [at |-> "new", i |-> 0]]

\* variant: a failing step is appended to the steps like one that completed
WoFail_KeepsStep(w, step, e) ==
    /\ workflows' = [workflows EXCEPT ![w].status = FAILED, ![w].error = e,
                                      ![w].steps = Append(@, step)]
    /\ wf_tasks' = [wf_tasks EXCEPT ![w] = [at |-> "done", i |-> 0]]

\* `except Exception as e:` of _execute_workflow, reached from the await of step
WoFail(w, step, e) ==
    /\ workflows' = [workflows EXCEPT ![w].status = FAILED, ![w].error = e]
    /\ wf_tasks' = [wf_tasks EXCEPT ![w] = [at |-> "done", i |-> 0]]

\* first step of the task: RUNNING, up to the await inside _gemini_director
WoStart(w) ==
    /\ wf_tasks[w].at = "new"
    /\ workflows' = [workflows EXCEPT ![w].status = RUNNING]
    /\ wf_tasks' = [wf_tasks EXCEPT ![w].at = "gemini_director"]

\* gemini.generate_content of _gemini_director is over: it raised, or the
\* step is appended and execution goes on into _scene_breakdown
WoDirector(w) ==
    /\ wf_tasks[w].at = "gemini_director"
    /\ \/ WoFail(w, "gemini_director", "gemini")
       \/ /\ workflows' = [workflows EXCEPT ![w].steps = Append(@, "gemini_director"),
                                             ![w].results = @ \cup {"director"}]
          /\ wf_tasks' = [wf_tasks EXCEPT ![w].at = "scene_breakdown"]

\* gemini.generate_content of _scene_breakdown is over; on success execution
\* goes on into _generate_frames, to the imagen call of the first scene
WoScenes(w) ==
    /\ wf_tasks[w].at = "scene_breakdown"
    /\ \/ WoFail(w, "scene_breakdown", "gemini")
       \/ /\ workflows' = [workflows EXCEPT ![w].steps = Append(@, "scene_breakdown"),
                                             ![w].results = @ \cup {"scenes"}]
          /\ wf_tasks' = [wf_tasks EXCEPT ![w] = [at |-> "imagen_generation", i |-> 1]]

\* The rest of _execute_workflow from the return of _generate_frames: none of
\* _generate_video, _generate_audio and _assemble_final_video suspends, so it
\* runs to the end in one step; _generate_video raises ValueError for a model
\* it does not know.
WoFinish(w) ==
    LET frames == [workflows EXCEPT ![w].steps = Append(@, "imagen_generation"),
                                    ![w].results = @ \cup {"frames"}] IN
    IF workflows[w].model \in VideoModels
    THEN /\ workflows' =
               [frames EXCEPT ![w].steps = @ \o <<"video_generation", "audio_generation",
                                                   "final_assembly">>,
                              ![w].results = @ \cup {"video", "audio", "final_video"},
                              ![w].status = COMPLETED,
                              ![w].completed_at = "set"]
         /\ wf_tasks' = [wf_tasks EXCEPT ![w] = [at |-> "done", i |-> 0]]
    ELSE /\ workflows' = [frames EXCEPT ![w].status = FAILED, ![w].error = "Unknown model"]
         /\ wf_tasks' = [wf_tasks EXCEPT ![w] = [at |-> "done", i |-> 0]]

\* imagen.generate_images for scene i is over.  When it returned the loop
\* goes on to the next scene; when it raised _generate_frames catches the
\* exception itself and returns placeholders.  After the last scene, or the
\* exception, execution goes on as WoFinish says.
WoFrames(w) ==
    /\ wf_tasks[w].at = "imagen_generation"
    /\ \/ /\ wf_tasks[w].i < Len(Scenes)
          /\ wf_tasks' = [wf_tasks EXCEPT ![w].i = @ + 1]
          /\ UNCHANGED workflows
       \/ /\ wf_tasks[w].i = Len(Scenes)
          /\ WoFinish(w)
       \/ WoFinish(w)

\* ----- the queue when an id is submitted more than once -----
MaxSubmits == 3

DqInit ==
    /\ dq_objects = <<>>
    /\ dq_jobs = <<>>
    /\ dq_queue = <<>>
    /\ dq_running = {}
    /\ dq_tasks = <<>>
    /\ dq_worker = [pc |-> "none", job_id |-> 0, job |-> 0]

\* start(), with the first step of the dispatcher up to `await self._queue.get()`
\* on the empty queue, or as DqWorkerRun says on one that is not empty
DqStart ==
    /\ dq_worker.pc = "none"
    /\ dq_worker' = [dq_worker EXCEPT !.pc = "get"]
    /\ UNCHANGED <<dq_objects, dq_jobs, dq_queue, dq_running, dq_tasks>>

\* submit_job(job_id, workflow_json): `self.jobs[job_id] = job` for any id,
\* registered already or not
DqSubmit(job_id) ==
    /\ Len(dq_objects) < MaxSubmits
    /\ dq_objects' = Append(dq_objects, [id |-> job_id, status |-> QUEUED, runs |-> 0])
    /\ dq_jobs' = (job_id :> Len(dq_objects) + 1) @@
                     [j \in DOMAIN dq_jobs \ {job_id} |-> dq_jobs[j]]
    /\ dq_queue' = Append(dq_queue, job_id)
    /\ UNCHANGED <<dq_running, dq_tasks, dq_worker>>

\* `task = asyncio.create_task(self._execute_job(job, executor))` and
\* `self._running_tasks[job_id] = task`
DqDispatch(r, job_id, job) ==
    [r EXCEPT !.running = @ \cup {job_id},
              !.tasks = Append(@, [job |-> job, pc |-> "new"])]

\* the loop of _worker from `job = self.jobs.get(job_id)` on, as WorkerLoop
RECURSIVE DqLoop(_)
DqLoop(r) ==
    IF r.queue = <<>>
    THEN [r EXCEPT !.pc = "get", !.job_id = 0, !.job = 0]
    ELSE LET job_id == Head(r.queue)
             rest == [r EXCEPT !.queue = Tail(@)] IN
         IF NoFreeSlot(r.running)
         THEN [rest EXCEPT !.pc = "wait", !.job_id = job_id, !.job = dq_jobs[job_id]]
         ELSE DqLoop(DqDispatch(rest, job_id, dq_jobs[job_id]))

\* the dispatcher wakes up in get(), or from the sleep when a slot is free
DqWorkerRun ==
    /\ \/ dq_worker.pc = "get" /\ dq_queue # <<>>
       \/ dq_worker.pc = "wait" /\ ~NoFreeSlot(dq_running)
    /\ LET now == [pc |-> dq_worker.pc, job_id |-> dq_worker.job_id, job |-> dq_worker.job,
                   queue |-> dq_queue, running |-> dq_running, tasks |-> dq_tasks]
           r == DqLoop(IF dq_worker.pc = "wait"
                       THEN DqDispatch(now, dq_worker.job_id, dq_worker.job)
                       ELSE now) IN
         /\ dq_worker' = [pc |-> r.pc, job_id |-> r.job_id, job |-> r.job]
         /\ dq_queue' = r.queue
         /\ dq_running' = r.running
         /\ dq_tasks' = r.tasks
    /\ UNCHANGED <<dq_objects, dq_jobs>>

\* first step of execution task t, the tasks starting in the order of their
\* creation: the Job object it was given becomes RUNNING
DqJobStart(t) ==
    /\ t \in DOMAIN dq_tasks
    /\ dq_tasks[t].pc = "new"
    /\ \A u \in 1..(t - 1) : dq_tasks[u].pc # "new"
    /\ dq_tasks' = [dq_tasks EXCEPT ![t].pc = "exec"]
    /\ dq_objects' = [dq_objects EXCEPT ![dq_tasks[t].job].status = RUNNING,
                                        ![dq_tasks[t].job].runs = @ + 1]
    /\ UNCHANGED <<dq_jobs, dq_queue, dq_running, dq_worker>>

\* execute_workflow returned or raised in task t; the finally removes the
\* entry under the job's id, whichever task it is the entry of
DqJobEnd(t) ==
    /\ t \in DOMAIN dq_tasks
    /\ dq_tasks[t].pc = "exec"
    /\ dq_tasks' = [dq_tasks EXCEPT ![t].pc = "done"]
    /\ \E status \in {COMPLETED, FAILED} :
          dq_objects' = [dq_objects EXCEPT ![dq_tasks[t].job].status = status]
    /\ dq_running' = dq_running \ {dq_objects[dq_tasks[t].job].id}
    /\ UNCHANGED <<dq_jobs, dq_queue, dq_worker>>

\* the state after construction, for the models together
InitAll == Init /\ LcInit /\ ExecInit /\ GraphInit /\ OrchInit /\ DqInit

\* the steps of this model of the queue leave everything else alone
DqOnly == UNCHANGED <<vars, lc_vars, ex_vars, gx_vars, wo_vars>>

DqNext ==
    \/ DqStart /\ DqOnly
    \/ \E job_id \in JobIds : DqSubmit(job_id) /\ DqOnly
    \/ DqWorkerRun /\ DqOnly
    \/ \E t \in 1..MaxSubmits : DqJobStart(t) /\ DqOnly
    \/ \E t \in 1..MaxSubmits : DqJobEnd(t) /\ DqOnly

ResubmitSpec == InitAll /\ [][DqNext]_all_vars

\* the steps of the node-graph executor leave everything else alone
GraphOnly == UNCHANGED <<vars, lc_vars, ex_vars, wo_vars, dq_vars>>

GraphNext ==
    \E nodes \in GraphWorkflows : GxExecuteWorkflow(nodes) /\ GraphOnly

GraphSpec == InitAll /\ [][GraphNext]_all_vars

\* the steps of the orchestrator leave everything else alone
OrchOnly == UNCHANGED <<vars, lc_vars, ex_vars, gx_vars, dq_vars>>

OrchNext ==
    \/ \E model \in Models : CreateWorkflow(model) /\ OrchOnly
    \/ \E w \in WorkflowIds : WoStart(w) /\ OrchOnly
    \/ \E w \in WorkflowIds : WoDirector(w) /\ OrchOnly
    \/ \E w \in WorkflowIds : WoScenes(w) /\ OrchOnly
    \/ \E w \in WorkflowIds : WoFrames(w) /\ OrchOnly

OrchSpec == InitAll /\ [][OrchNext]_all_vars

\* the steps of this model leave the queue and the executor alone
LcOnly == UNCHANGED <<vars, ex_vars, gx_vars, wo_vars, dq_vars>>

LcNext ==
    \/ LcStart /\ LcOnly
    \/ LcStop /\ LcOnly
    \/ \E t \in DispatcherIds : LcWorkerStep(t) /\ LcOnly
    \/ \E t \in DispatcherIds : LcStopReturn(t) /\ LcOnly

LifecycleSpec == InitAll /\ [][LcNext]_all_vars

\* ----- the queue: its steps leave the variables of the other models alone -----
QueueOnly == UNCHANGED <<lc_vars, ex_vars, gx_vars, wo_vars, dq_vars>>

Next ==
    \/ Start /\ QueueOnly
    \/ \E job_id \in FreshIds : SubmitJob(job_id) /\ QueueOnly
    \/ \E job_id \in JobIds : CancelJob(job_id) /\ QueueOnly
    \/ WorkerRun /\ QueueOnly
    \/ WorkerWake /\ QueueOnly
    \/ WorkerCancelled /\ QueueOnly
    \/ \E j \in JobIds : JobStart(j) /\ QueueOnly
    \/ \E j \in JobIds : JobCompleted(j) /\ QueueOnly
    \/ \E j \in JobIds : JobFailed(j) /\ QueueOnly
    \/ \E j \in JobIds : JobCancelled(j) /\ QueueOnly
    \/ StopCall /\ QueueOnly
    \/ StopReturn /\ QueueOnly

Spec == InitAll /\ [][Next]_all_vars

\* The event loop runs every ready coroutine: the dispatcher and the job tasks
\* make progress, and every execute_workflow call terminates.
FairSpec ==
    /\ Spec
    /\ WF_vars(WorkerStep)
    /\ \A j \in JobIds : WF_vars(JobStep(j))

TypeOK ==
    /\ DOMAIN jobs \subseteq JobIds
    /\ \A j \in DOMAIN jobs : jobs[j].status \in JobStatus
    /\ max_concurrent \in 1..MaxK
    /\ running_tasks \subseteq JobIds
    /\ worker_task \in {None, "task"}
    /\ worker.pc \in {"none", "new", "get", "wait", "done"}
    /\ \A j \in JobIds : task[j] \in {"none", "new", "exec", "done"}
    /\ task_cancel \subseteq JobIds
    /\ stopping \in BOOLEAN

\* ----- one execution of WorkflowExecutor.execute_workflow: its steps -----
\* The queue reaches the executor through `executor.execute_workflow(
\* job.workflow_json)`: no callback is passed, so no progress event is emitted.
\* The capabilities (imagen, veo, gemini_tts, ffmpeg, the storage bucket) are
\* the environment: a call returns or raises.

\* the job whose execution is followed
ExecJob == 1

\* str(e) of the errors: the capability that raised, or the KeyError of line 38
KeyErrorWorkflowId == "'workflow_id'"
Outcomes == {"ok", "error", "upload_error"}

\* the state of the execution as one record
X ==
    [workflow |-> workflow, at |-> xpc.at, i |-> xpc.i, kt |-> keyframe_tasks,
     calls |-> calls, log |-> stage_log, callback |-> callback, events |-> events]

SetX(r) ==
    /\ workflow' = r.workflow
    /\ xpc' = [at |-> r.at, i |-> r.i]
    /\ keyframe_tasks' = r.kt
    /\ calls' = r.calls
    /\ stage_log' = r.log
    /\ callback' = r.callback
    /\ events' = r.events

\* `if callback: callback(stage, phase, percent)`
Emit(x, s, phase, percent) ==
    IF x.callback THEN [x EXCEPT !.events = Append(@, <<s, phase, percent>>)] ELSE x

\* `int((i + 1) / len(shots) * 100)` for the shot at index i, counted here from 1
Percent(i, n) == (i * 100) \div n

\* the stage functions that report to the callback: _export_formats takes the
\* callback and never calls it
Reporting == {"keyframes", "videos", "audio", "composition"}

\* variant: the audio stage is left out of the pipeline
NextStage_SkipAudio(s) ==
    CASE s = "keyframes" -> "videos"
      [] s = "videos" -> "composition"
      [] s = "audio" -> "composition"
      [] s = "composition" -> "export"
      [] s = "export" -> "end"

\* execute_workflow, lines 41-61: the stage awaited after stage s
NextStage(s) ==
    CASE s = "keyframes" -> "videos"
      [] s = "videos" -> "audio"
      [] s = "audio" -> "composition"
      [] s = "composition" -> "export"
      [] s = "export" -> "end"

\* variant: the error is passed on without a mark on the workflow
Raise_Unmarked(x, e) ==
    [x EXCEPT !.workflow.error = e, !.at = "raised"]

\* variant: the handler also marks the progress entry of the stage that raised
Raise_MarksStage(x, e) ==
    [x EXCEPT !.workflow.status = "failed", !.workflow.error = e, !.at = "raised",
              !.workflow.progress =
                  IF x.at \in {"keyframes", "videos", "audio", "composition"}
                  THEN [@ EXCEPT ![x.at] = "failed"] ELSE @]

\* `except Exception as e:` of execute_workflow, then `raise`
Raise(x, e) ==
    [x EXCEPT !.workflow.status = "failed", !.workflow.error = e, !.at = "raised"]

\* variant: the imagen calls are started one at a time
Gathered_OneAtATime(n) ==
    [i \in ShotIds |-> IF i <= n /\ i = 1 THEN "run" ELSE "none"]

\* `asyncio.gather(*[t for _, t in keyframe_tasks])`: one imagen call per
\* shot, all of them started together
Gathered(n) ==
    [i \in ShotIds |-> IF i <= n THEN "run" ELSE "none"]

\* EnterStage: execution enters stage function s and runs to its first await
\* (the audio stage has none when the plan has no voiceover).  LeaveStage: the
\* stage function writes its progress entry (the export function writes none)
\* and returns, and execute_workflow goes on to the next stage or returns.
RECURSIVE EnterStage(_, _), LeaveStage(_, _)
EnterStage(s, x) ==
    IF s = "end"
    THEN [x EXCEPT !.workflow.status = "completed", !.at = "returned", !.i = 0]
    ELSE LET l == [x EXCEPT !.log = Append(@, <<s, "enter">>)]
             e == IF s \in Reporting THEN Emit(l, s, "started", 0) ELSE l IN
         CASE s = "keyframes" ->
                [e EXCEPT !.at = s, !.i = 0,
                          !.kt = Gathered(e.workflow.shots),
                          !.calls[s] = @ + e.workflow.shots]
           [] s = "videos" -> [e EXCEPT !.at = s, !.i = 1, !.calls[s] = @ + 1]
           [] s = "audio" ->
                IF e.workflow.voiceover
                THEN [e EXCEPT !.at = s, !.i = 0, !.calls[s] = @ + 1]
                ELSE LeaveStage(s, Emit(e, s, "progress", 50))
           [] s = "composition" -> [e EXCEPT !.at = s, !.i = 0, !.calls[s] = @ + 1]
           [] s = "export" -> [e EXCEPT !.at = s, !.i = 1, !.calls[s] = @ + 1]

LeaveStage(s, x) ==
    LET p == [x EXCEPT !.workflow.progress =
                           IF s = "export" THEN @ ELSE [@ EXCEPT ![s] = "complete"]]
        c == IF s \in Reporting THEN Emit(p, s, "complete", 100) ELSE p IN
    EnterStage(NextStage(s), [c EXCEPT !.log = Append(@, <<s, "return">>)])

\* variant: submit_job checks the dict and refuses a malformed one
SubmitWorkflow_Validated(w) ==
    /\ w \notin Malformed
    /\ ExecJob \in FreshIds
    /\ SubmitJob(ExecJob)
    /\ workflow' = w
    /\ UNCHANGED <<xpc, keyframe_tasks, calls, stage_log, callback, events>>

\* submit_job(job_id, workflow_json): any dict is taken
SubmitWorkflow(w) ==
    /\ ExecJob \in FreshIds
    /\ SubmitJob(ExecJob)
    /\ workflow' = w
    /\ UNCHANGED <<xpc, keyframe_tasks, calls, stage_log, callback, events>>

\* the execution task is at an await of the executor with no cancel request
Running == task[ExecJob] = "exec" /\ ExecJob \notin task_cancel

\* The execution task goes on to state r of the executor; when execute_workflow
\* has returned or raised, _execute_job ends in the same step.
Resume(r) ==
    /\ SetX(r)
    /\ CASE r.at = "returned" -> JobCompleted(ExecJob)
         [] r.at = "raised" -> JobFailedWith(ExecJob, r.workflow.error)
         [] OTHER -> Running /\ UNCHANGED vars

\* First step of the execution task: _execute_job up to the await inside
\* _generate_keyframes (asyncio.gather over one imagen call per shot).
\* _execute_job passes no callback; the run with one is that of a caller that
\* passes its own to execute_workflow and otherwise does as _execute_job does.
ExecStart ==
    /\ workflow.kind = "plan"
    /\ JobStart(ExecJob)
    /\ IF ExecJob \in task_cancel
       THEN UNCHANGED <<workflow, xpc, keyframe_tasks, calls, stage_log, callback, events>>
       ELSE \E cb \in BOOLEAN :
               SetX(EnterStage(Stages[1], [X EXCEPT !.callback = cb]))

\* The same step on the empty dict: `workflow['workflow_id']` raises KeyError
\* before the try of execute_workflow, and _execute_job records the failure.
ExecStartMalformed ==
    /\ workflow.kind = "empty"
    /\ NextToStart(ExecJob)
    /\ IF ExecJob \in task_cancel
       THEN /\ JobStart(ExecJob)
            /\ UNCHANGED <<workflow, xpc, keyframe_tasks, calls, stage_log,
                           callback, events>>
       ELSE /\ jobs' = [jobs EXCEPT ![ExecJob].status = FAILED,
                                    ![ExecJob].started_at = "set",
                                    ![ExecJob].error = KeyErrorWorkflowId,
                                    ![ExecJob].completed_at = "set"]
            /\ running_tasks' = ReleaseSlot(running_tasks, ExecJob)
            /\ task' = [task EXCEPT ![ExecJob] = "done"]
            /\ Forget(ExecJob)
            /\ xpc' = [at |-> "raised", i |-> 0]
            /\ UNCHANGED <<max_concurrent, queue, worker_task, worker, task_cancel,
                           stopping, workflow, keyframe_tasks, calls, stage_log,
                           callback, events>>

\* one imagen.generate_image call of the gather returns or raises
KeyframeTaskDone(i) ==
    /\ keyframe_tasks[i] = "run"
    /\ \E o \in {"ok", "fail"} : keyframe_tasks' = [keyframe_tasks EXCEPT ![i] = o]
    /\ UNCHANGED <<vars, workflow, xpc, calls, stage_log, callback, events>>

\* variant: gather(..., return_exceptions=True), failures are not looked at
GatherFailed_Ignored(kt) == FALSE

\* asyncio.gather raises as soon as one of its calls has raised
GatherFailed(kt) == \E i \in ShotIds : kt[i] = "fail"

\* variant: the loop leaves the last of the shots it handles without its keyframe_uri
Uploaded_DropsLast(x, k, n) ==
    [x EXCEPT !.workflow.keyframe_uri = 1..(k - 1),
              !.events = IF x.callback
                         THEN @ \o [i \in 1..k |-> <<"keyframes", "progress", Percent(i, n)>>]
                         ELSE @]

\* the loop of lines 97-106 after k of n uploads: keyframe_uri is set and the
\* callback called shot by shot
Uploaded(x, k, n) ==
    [x EXCEPT !.workflow.keyframe_uri = 1..k,
              !.events = IF x.callback
                         THEN @ \o [i \in 1..k |-> <<"keyframes", "progress", Percent(i, n)>>]
                         ELSE @]

\* The gather is over: it raised, or every call returned and the loop of
\* lines 97-106 uploads the images shot by shot (an upload may raise).
KeyframesResume ==
    /\ xpc.at = "keyframes"
    /\ LET n == workflow.shots IN
         IF GatherFailed(keyframe_tasks)
         THEN Resume(Raise(X, "imagen"))
         ELSE /\ \A i \in 1..n : keyframe_tasks[i] \in {"ok", "fail"}
              /\ \E k \in 0..n :
                    Resume(IF k < n
                           THEN Raise(Uploaded(X, k, n), "storage")
                           ELSE LeaveStage("keyframes", Uploaded(X, n, n)))

\* `await veo.generate_video` for shot xpc.i is over, lines 131-150
VideoStep ==
    /\ xpc.at = "videos"
    /\ \E o \in Outcomes :
          Resume(CASE o = "error" -> Raise(X, "veo")
                   [] o = "upload_error" -> Raise(X, "storage")
                   [] o = "ok" ->
                        Emit([X EXCEPT !.workflow.video_uri = @ \cup {xpc.i},
                                       !.at = "sleep"],
                             "videos", "progress", Percent(xpc.i, workflow.shots)))

\* `await asyncio.sleep(2)` is over: the next shot, or the end of the stage
SleepStep ==
    /\ xpc.at = "sleep"
    /\ Resume(IF xpc.i < workflow.shots
              THEN [X EXCEPT !.at = "videos", !.i = @ + 1, !.calls.videos = @ + 1]
              ELSE LeaveStage("videos", X))

\* `await gemini_tts.generate_speech` is over, lines 174-200
AudioStep ==
    /\ xpc.at = "audio"
    /\ \E o \in Outcomes :
          Resume(CASE o = "error" -> Raise(X, "gemini_tts")
                   [] o = "upload_error" -> Raise(X, "storage")
                   [] o = "ok" ->
                        LeaveStage("audio",
                                   Emit([X EXCEPT !.workflow.voiceover_uri = TRUE],
                                        "audio", "progress", 50)))

\* `await self.ffmpeg.compose` is over, lines 224-246
ComposeStep ==
    /\ xpc.at = "composition"
    /\ \E o \in Outcomes :
          Resume(CASE o = "error" -> Raise(X, "ffmpeg")
                   [] o = "upload_error" -> Raise(X, "storage")
                   [] o = "ok" -> LeaveStage("composition",
                                             [X EXCEPT !.workflow.outputs = {"final_video"}]))

\* variant: the output of each format is written to the workflow as it is made
ExportStep_Incremental ==
    /\ xpc.at = "export"
    /\ \E o \in Outcomes :
          Resume(CASE o = "error" -> Raise(X, "ffmpeg")
                   [] o = "upload_error" -> Raise(X, "storage")
                   [] o = "ok" ->
                        IF xpc.i < Len(Formats)
                        THEN [X EXCEPT !.i = @ + 1, !.calls.export = @ + 1,
                                       !.workflow.outputs = @ \cup {"formats"}]
                        ELSE LeaveStage("export",
                                        [X EXCEPT !.workflow.outputs = @ \cup {"formats"}]))

\* `await self.ffmpeg.transcode` for format xpc.i is over, lines 263-281; the
\* outputs of the formats are kept in a local dict until the loop has ended
ExportStep ==
    /\ xpc.at = "export"
    /\ \E o \in Outcomes :
          Resume(CASE o = "error" -> Raise(X, "ffmpeg")
                   [] o = "upload_error" -> Raise(X, "storage")
                   [] o = "ok" ->
                        IF xpc.i < Len(Formats)
                        THEN [X EXCEPT !.i = @ + 1, !.calls.export = @ + 1]
                        ELSE LeaveStage("export",
                                        [X EXCEPT !.workflow.outputs = @ \cup {"formats"}]))

\* CancelledError is thrown in at the await.  It is no Exception, so that
\* execute_workflow leaves the workflow as it is; a gather that is still
\* waiting cancels its calls.
ExecCancelled ==
    /\ xpc.at \in {"keyframes", "videos", "sleep", "audio", "composition", "export"}
    /\ JobCancelled(ExecJob)
    /\ xpc' = [xpc EXCEPT !.at = "cancelled"]
    /\ keyframe_tasks' =
          IF xpc.at = "keyframes" /\ ~GatherFailed(keyframe_tasks)
          THEN [i \in ShotIds |->
                   IF keyframe_tasks[i] = "run" THEN "cancelled" ELSE keyframe_tasks[i]]
          ELSE keyframe_tasks
    /\ UNCHANGED <<workflow, calls, stage_log, callback, events>>

\* get_job(job_id), and list_jobs for each job it lists: the Job object of
\* self.jobs itself is returned (None for an unknown id).  reader[job_id] keeps
\* the record as it was at that moment; what the reader holds is the object.
GetJob(job_id) ==
    /\ job_id \in DOMAIN jobs
    /\ reader' = (job_id :> jobs[job_id]) @@ reader
    /\ UNCHANGED <<vars, workflow, xpc, keyframe_tasks, calls, stage_log, callback, events>>

\* the steps of the executor leave the dispatcher's other model and the
\* reader alone
ExecOnly == UNCHANGED <<lc_vars, reader, gx_vars, wo_vars, dq_vars>>

ExecNext ==
    \/ Start /\ QueueOnly
    \/ \E w \in Workflows : SubmitWorkflow(w) /\ ExecOnly
    \/ CancelJob(ExecJob) /\ QueueOnly
    \/ WorkerRun /\ QueueOnly
    \/ ExecStart /\ ExecOnly
    \/ ExecStartMalformed /\ ExecOnly
    \/ \E i \in ShotIds : KeyframeTaskDone(i) /\ ExecOnly
    \/ KeyframesResume /\ ExecOnly
    \/ VideoStep /\ ExecOnly
    \/ SleepStep /\ ExecOnly
    \/ AudioStep /\ ExecOnly
    \/ ComposeStep /\ ExecOnly
    \/ ExportStep /\ ExecOnly
    \/ ExecCancelled /\ ExecOnly
    \/ GetJob(ExecJob) /\ UNCHANGED <<lc_vars, gx_vars, wo_vars, dq_vars>>

ExecSpec == InitAll /\ [][ExecNext]_all_vars

\* ======================= the claims =======================

RunningJobs == {j \in DOMAIN jobs : jobs[j].status = RUNNING}
InFlight == {j \in JobIds : task[j] \in {"new", "exec"}}
Started(j) == task[j] \in {"exec", "done"}
Earlier(i, j) == jobs[i].created_at < jobs[j].created_at

\* C1: the number of Running jobs, and the number of executions in flight,
\* never exceeds max_concurrent.
C1_ConcurrencyBound ==
    /\ Cardinality(RunningJobs) <= max_concurrent
    /\ Cardinality(InFlight) <= max_concurrent

\* all slots busy with Running jobs while the dispatcher holds another job
C1_Witness ==
    /\ max_concurrent = MaxK
    /\ Cardinality(RunningJobs) = max_concurrent
    /\ worker.pc = "wait"

\* C2: a job cancelled while Queued (status Cancelled, execution not begun)
\* never becomes Running: its execution never begins.
C2_CancelledQueuedNeverRuns ==
    [][\A j \in DOMAIN jobs :
         (jobs[j].status = CANCELLED /\ ~Started(j))
            => (jobs'[j].status = CANCELLED /\ ~Started(j)')]_vars

\* C3: once a job's status is Completed, Failed or Cancelled it never changes.
C3_TerminalFinal ==
    [][\A j \in DOMAIN jobs :
         jobs[j].status \in Terminal => jobs'[j].status = jobs[j].status]_vars

\* C4: executions start in submission order: when a job becomes Running every
\* job submitted before it has become Running, and with max_concurrent = 1 has
\* terminated.
C4_FifoStart ==
    [][\A j \in DOMAIN jobs :
         (task[j] = "new" /\ task'[j] = "exec")
            => \A i \in DOMAIN jobs :
                  Earlier(i, j) =>
                     /\ Started(i)
                     /\ (max_concurrent = 1 => task[i] = "done")]_vars

\* C5: a slot is held exactly by the executions created and not yet ended, so
\* it is taken before the execution begins, released on every exit path, and
\* no slot is occupied once every dispatched job has terminated.
C5_NoLostSlot ==
    /\ running_tasks = InFlight
    /\ (\A j \in JobIds : task[j] \in {"none", "done"}) => running_tasks = {}

\* the three exit paths have all been taken and every slot is free again
C5_Witness ==
    /\ running_tasks = {}
    /\ \E a, b, c \in DOMAIN jobs :
          /\ task[a] = "done" /\ jobs[a].status = COMPLETED
          /\ task[b] = "done" /\ jobs[b].status = FAILED
          /\ task[c] = "done" /\ jobs[c].status = CANCELLED

\* C6: cancel_job on a job in a terminal state returns false and changes no
\* field of the job record.
C6_CancelTerminalFalse ==
    /\ [](\A j \in DOMAIN jobs :
            jobs[j].status \in Terminal => CancelJobResult(j) = FALSE)
    /\ [][\A j \in DOMAIN jobs :
            (jobs[j].status \in Terminal /\ CancelJob(j)) => jobs' = jobs]_vars

C8_CancelIdempotent ==
    [][\A j \in cancel_called :
         CancelJob(j) => (jobs' = jobs /\ task_cancel' = task_cancel)]_vars

\* C9: in every run in which stop() is never called, once a dispatcher is
\* running every submitted job is eventually dispatched if it is not cancelled
\* and reaches a terminal state with its execution ended.
DispatcherUp == worker.pc \in {"new", "get", "wait"} /\ ~worker.cancel

C9_NoStarvation ==
    ([]~stopping) =>
       \A j \in JobIds :
          (j \in DOMAIN jobs /\ DispatcherUp) ~>
             (/\ j \in DOMAIN jobs
              /\ jobs[j].status \in Terminal
              /\ (j \in cancel_called \/ task[j] = "done")
              /\ task[j] \in {"none", "done"})

\* the last job has run to completion behind the others on a single slot
C9_Witness ==
    /\ max_concurrent = 1
    /\ DispatcherUp
    /\ MaxJobs \in DOMAIN jobs
    /\ \A j \in DOMAIN jobs : task[j] = "done" /\ jobs[j].status \in {COMPLETED, FAILED}

\* C10 as stated: when stop() returns every job that was Running when it was
\* called is in a terminal state, and stop() changes no job.
C10_StopWaitsForJobs ==
    [][/\ StopReturn => \A j \in stop_running : jobs'[j].status \in Terminal
       /\ (StopCall \/ WorkerCancelled \/ StopReturn) => jobs' = jobs]_vars

\* C10 amended: stop() ends the dispatcher only: it changes no job record,
\* signals no execution and frees no slot, and a job that was Running when
\* stop() was called is, when stop() returns, still Running or terminal by its
\* own course (Cancelled only if cancel_job was called for it).
C10_StopLeavesJobs ==
    [][/\ (StopCall \/ WorkerCancelled \/ StopReturn) =>
            UNCHANGED <<jobs, task, task_cancel, running_tasks>>
       /\ StopReturn =>
            \A j \in stop_running :
               /\ jobs'[j].status \in {RUNNING} \cup Terminal
               /\ (jobs'[j].status = CANCELLED => j \in cancel_called)]_vars

\* stop() is about to return while a job that was Running at the call still runs
C10_Witness ==
    /\ stopping
    /\ worker.pc = "done"
    /\ \E j \in stop_running : jobs[j].status = RUNNING /\ task[j] = "exec"

\* C11: start() and stop() are idempotent: at every moment at most one
\* dispatcher loop exists; start() while a dispatcher is running creates no
\* second dispatcher, and stop() when no dispatcher is running changes nothing.
C11_OneDispatcher ==
    /\ [](Cardinality(LiveDispatchers) <= 1)
    /\ [][(LcStart /\ LiveDispatchers # {}) => lc_tasks' = lc_tasks]_all_vars
    /\ [][(LcStop /\ LiveDispatchers = {}) => lc_tasks' = lc_tasks]_all_vars

\* C12: submit_job is never refused and never waits, whatever the number of
\* Running and Queued jobs: it registers the job with status Queued, progress
\* 0, no result and no error, appends its id at the tail of the queue and
\* touches no other job; the job leaves Queued for Running only holding one of
\* the max_concurrent slots.
C12_SubmitNeverRefused ==
    /\ [](\A id \in FreshIds : ENABLED SubmitJob(id))
    /\ [][\A id \in FreshIds :
            SubmitJob(id) =>
               /\ DOMAIN jobs' = DOMAIN jobs \cup {id}
               /\ jobs'[id].id = id
               /\ jobs'[id].status = QUEUED
               /\ jobs'[id].progress = 0
               /\ jobs'[id].result = None
               /\ jobs'[id].error = None
               /\ queue' = Append(queue, id)
               /\ \A j \in DOMAIN jobs : jobs'[j] = jobs[j]]_vars
    /\ [][\A j \in DOMAIN jobs :
            (jobs[j].status = QUEUED /\ jobs'[j].status # QUEUED) =>
               \/ jobs'[j].status = CANCELLED
               \/ /\ jobs'[j].status = RUNNING
                  /\ j \in running_tasks
                  /\ Cardinality(running_tasks) <= max_concurrent]_vars

\* a job was accepted, and waits Queued, while every slot is busy and the
\* dispatcher already holds another job
C12_Witness ==
    /\ Cardinality(RunningJobs) = max_concurrent
    /\ worker.pc = "wait"
    /\ queue # <<>>
    /\ LET j == queue[Len(queue)] IN
          /\ jobs[j].status = QUEUED
          /\ jobs[j].progress = 0
          /\ jobs[j].created_at = Cardinality(DOMAIN jobs)

\* The queue has been shut down: an execution was dispatched, so a dispatcher
\* has run, and stop() has set _worker_task back to None.
ShutDown == worker_task = None /\ \E j \in JobIds : task[j] # "none"

\* C13 as stated: submit_job fails if and only if the queue has been shut
\* down: after stop() a submission is refused, so that no job is created and
\* nothing is enqueued, and before stop() a submission always succeeds.
C13_SubmitFailsAfterStop ==
    /\ [][ShutDown => (DOMAIN jobs' = DOMAIN jobs /\ queue' = queue)]_vars
    /\ [](~ShutDown => \A id \in FreshIds : ENABLED SubmitJob(id))

\* C13 amended: submit_job never fails, shut down or not: after stop() it
\* still registers the job as Queued and enqueues its id, and the job waits
\* there, not dispatched, for as long as the queue stays shut down.
C13_SubmitAfterStop ==
    /\ [](ShutDown => \A id \in FreshIds : ENABLED SubmitJob(id))
    /\ [][\A id \in FreshIds :
            (ShutDown /\ SubmitJob(id)) =>
               /\ id \in DOMAIN jobs'
               /\ jobs'[id].status = QUEUED
               /\ queue' = Append(queue, id)
               /\ ShutDown']_vars
    /\ [][(ShutDown /\ ShutDown') =>
            \A j \in JobIds : task[j] = "none" => task'[j] = "none"]_vars

\* the queue is shut down, everything dispatched has ended, and a job waits
\* Queued in the queue with room left for a further submission
C13_Witness ==
    /\ ShutDown
    /\ ~stopping
    /\ FreshIds # {}
    /\ running_tasks = {}
    /\ queue # <<>>
    /\ \A i \in 1..Len(queue) : jobs[queue[i]].status = QUEUED

CanonicalLog ==
    [k \in 1..(2 * Len(Stages)) |->
        <<Stages[(k + 1) \div 2], IF k % 2 = 1 THEN "enter" ELSE "return">>]

IsPrefix(s, t) == Len(s) <= Len(t) /\ \A k \in 1..Len(s) : s[k] = t[k]

\* the stage function that was entered last and has not returned
CurrentStage == stage_log[Len(stage_log)][1]
InStage ==
    /\ stage_log # <<>>
    /\ stage_log[Len(stage_log)][2] = "enter"

Returned(s) == \E k \in 1..Len(stage_log) : stage_log[k] = <<s, "return">>

\* C15: the stage functions run in the order keyframes, videos, audio,
\* composition, export, each at most once and none left out: a capability of
\* a stage is called only after that stage was entered and every stage before
\* it has returned, and a Completed job has run all five.
C15_StageOrder ==
    /\ [](IsPrefix(stage_log, CanonicalLog))
    /\ [](jobs # <<>> /\ jobs[ExecJob].status = COMPLETED => stage_log = CanonicalLog)
    /\ [][\A k \in 1..Len(Stages) :
            calls'[Stages[k]] > calls[Stages[k]] =>
               /\ stage_log' # <<>>
               /\ \E m \in 1..Len(stage_log') :
                     /\ stage_log'[m] = <<Stages[k], "enter">>
                     /\ \A l \in (m + 1)..Len(stage_log') :
                           \E a \in 1..(k - 1) : stage_log'[l][1] = Stages[a]
               /\ ~Returned(Stages[k])'
               /\ \A a \in 1..(k - 1) : Returned(Stages[a])']_all_vars

\* a plan with a voiceover and all its shots has run through the five stages
C15_Witness ==
    /\ jobs # <<>>
    /\ jobs[ExecJob].status = COMPLETED
    /\ workflow.shots = MaxShots
    /\ workflow.voiceover
    /\ stage_log = CanonicalLog
    /\ calls.keyframes = MaxShots /\ calls.videos = MaxShots /\ calls.audio = 1
    /\ calls.composition = 1 /\ calls.export = Len(Formats)

\* str(e) of the exceptions a stage can raise
StageErrors(s) ==
    CASE s = "keyframes" -> {"imagen", "storage"}
      [] s = "videos" -> {"veo", "storage"}
      [] s = "audio" -> {"gemini_tts", "storage"}
      [] s = "composition" -> {"ffmpeg", "storage"}
      [] s = "export" -> {"ffmpeg", "storage"}

StageFailed == xpc.at = "raised" /\ workflow.kind = "plan"

\* C16: when a stage raises, no later stage runs (no stage is entered, no
\* capability called, nothing more written), the job is Failed with the text
\* of that error as its error, and the workflow is marked failed with the same
\* error.
C16_FailureStops ==
    /\ [](StageFailed =>
            /\ InStage
            /\ jobs[ExecJob].status = FAILED
            /\ jobs[ExecJob].error \in StageErrors(CurrentStage)
            /\ workflow.status = "failed"
            /\ workflow.error = jobs[ExecJob].error
            /\ task[ExecJob] = "done")
    /\ [][(xpc'.at = "raised" /\ xpc.at # "raised" /\ workflow.kind = "plan") =>
            /\ xpc.at = CurrentStage
            /\ jobs'[ExecJob].error \in StageErrors(xpc.at)
            /\ stage_log' = stage_log
            /\ calls' = calls]_all_vars
    /\ [][StageFailed => UNCHANGED <<workflow, calls, stage_log, xpc, jobs>>]_all_vars

\* the video stage raised on the last shot
C16_Witness ==
    /\ StageFailed
    /\ jobs[ExecJob].status = FAILED
    /\ jobs[ExecJob].error = "veo"
    /\ workflow.error = "veo"
    /\ CurrentStage = "videos"
    /\ xpc.i = MaxShots

KeyframeFailed == \E i \in ShotIds : keyframe_tasks[i] = "fail"

C19_ResultKeepsAssets ==
    (StageFailed /\ Returned("keyframes")) => jobs[ExecJob].result # None

\* C19 amended: the result of a Failed job is None.  What was written before
\* the error stays in the job's workflow dict: the keyframe reference of every
\* shot once the keyframe stage has completed, the video references of the
\* shots before the one whose video failed, and workflow['outputs'] only from
\* the composition on.
C19_AssetsStayInWorkflow ==
    StageFailed =>
       /\ jobs[ExecJob].result = None
       /\ Returned("keyframes") => workflow.keyframe_uri = 1..workflow.shots
       /\ CurrentStage = "keyframes" => workflow.video_uri = {}
       /\ CurrentStage = "videos" => workflow.video_uri = 1..(xpc.i - 1)
       /\ Returned("videos") => workflow.video_uri = 1..workflow.shots
       /\ workflow.outputs = IF Returned("composition") THEN {"final_video"} ELSE {}

\* the video of the last shot failed: every keyframe and the videos of the
\* shots before it are referenced in the workflow, the result is None
C19_Witness ==
    /\ StageFailed
    /\ workflow.shots = MaxShots
    /\ workflow.error = "veo"
    /\ xpc.i = MaxShots
    /\ workflow.keyframe_uri = 1..MaxShots
    /\ workflow.video_uri = 1..(MaxShots - 1)
    /\ jobs[ExecJob].status = FAILED
    /\ jobs[ExecJob].result = None

\* C20: a job's result is set only if its status is Completed, and its error
\* only if its status is Failed.
C20_ResultErrorByStatus ==
    \A j \in DOMAIN jobs :
       /\ jobs[j].result # None => jobs[j].status = COMPLETED
       /\ jobs[j].error # None => jobs[j].status = FAILED

\* one job has ended Completed with its result, another Failed with its
\* error, a third Cancelled with neither
C20_Witness ==
    \E a, b, c \in DOMAIN jobs :
       /\ jobs[a].status = COMPLETED /\ jobs[a].result # None /\ jobs[a].error = None
       /\ jobs[b].status = FAILED /\ jobs[b].error # None /\ jobs[b].result = None
       /\ jobs[c].status = CANCELLED /\ jobs[c].started_at = "set"
       /\ jobs[c].result = None /\ jobs[c].error = None

\* C21 as stated: the job is Failed if and only if some stage of its pipeline
\* raised: a run in which no stage raises never ends Failed, and a run in which
\* a stage raises never ends Completed.
C21_FailedIffStageRaised ==
    ExecJob \in DOMAIN jobs =>
       /\ jobs[ExecJob].status = FAILED <=> StageFailed
       /\ StageFailed => jobs[ExecJob].status # COMPLETED

\* C21 amended: the job is Failed if and only if execute_workflow raised an
\* Exception, which is either the error of a stage, or the KeyError of a
\* workflow dict without 'workflow_id', raised before the first stage; and it
\* is Completed if and only if execute_workflow returned, every stage having
\* returned.  A cancellation is neither.
C21_FailedIffExecutorRaised ==
    ExecJob \in DOMAIN jobs =>
       /\ jobs[ExecJob].status = FAILED <=> xpc.at = "raised"
       /\ xpc.at = "raised" =>
             \/ /\ workflow.kind = "plan"
                /\ InStage
                /\ jobs[ExecJob].error \in StageErrors(CurrentStage)
             \/ /\ workflow \in Malformed
                /\ stage_log = <<>>
                /\ jobs[ExecJob].error = KeyErrorWorkflowId
       /\ jobs[ExecJob].status = COMPLETED <=> xpc.at = "returned"
       /\ xpc.at = "returned" => (workflow.kind = "plan" /\ stage_log = CanonicalLog)
       /\ xpc.at = "cancelled" => jobs[ExecJob].status = CANCELLED

\* a job has failed though no stage was entered, and so none raised
C21_Witness ==
    /\ ExecJob \in DOMAIN jobs
    /\ jobs[ExecJob].status = FAILED
    /\ xpc.at = "raised"
    /\ ~StageFailed
    /\ stage_log = <<>>
    /\ calls = NoCalls

\* C22: whenever every stage recorded in the job's per-stage progress
\* (workflow['progress']) is complete, the job is not Failed; in particular a
\* failure in the export leaves no Failed job with every recorded stage complete.
C22_AllCompleteNotFailed ==
    (/\ workflow.kind = "plan"
     /\ \A s \in DOMAIN workflow.progress : workflow.progress[s] = "complete")
       => jobs[ExecJob].status # FAILED

\* C23: a job's progress never decreases, stays within [0, 1], and is 1.0
\* only when the job's status is Completed.
C23_ProgressMonotone ==
    /\ [](\A j \in DOMAIN jobs :
            /\ 0 <= jobs[j].progress /\ jobs[j].progress <= 1
            /\ jobs[j].progress = 1 => jobs[j].status = COMPLETED)
    /\ [][\A j \in DOMAIN jobs : jobs'[j].progress >= jobs[j].progress]_vars

\* one job has reached progress 1.0 by completing while another, Failed, and
\* a third, still Running, are at 0
C23_Witness ==
    \E a, b, c \in DOMAIN jobs :
       /\ jobs[a].status = COMPLETED /\ jobs[a].progress = 1
       /\ jobs[b].status = FAILED /\ jobs[b].progress = 0
       /\ jobs[c].status = RUNNING /\ jobs[c].progress = 0

\* the stages that have returned
CompletedStages == {k \in 1..Len(Stages) : Returned(Stages[k])}

\* C24: after each stage of a job succeeds, that stage's entry in the
\* per-stage progress is complete, for all five stages, the export included,
\* and the job's overall progress equals completed_stages / 5.
C24_ProgressPerStage ==
    (/\ workflow.kind = "plan"
     /\ ExecJob \in DOMAIN jobs
     /\ jobs[ExecJob].status \in {RUNNING, COMPLETED})
       => /\ \A k \in CompletedStages :
                /\ Stages[k] \in DOMAIN workflow.progress
                /\ workflow.progress[Stages[k]] = "complete"
          /\ Len(Stages) * jobs[ExecJob].progress = Cardinality(CompletedStages)

\* job i waits for its dispatch: its id is in the queue, or in the hands of
\* the dispatcher sleeping for a free slot
Waiting(i) ==
    \/ \E k \in 1..Len(queue) : queue[k] = i
    \/ worker.pc = "wait" /\ worker.job_id = i

\* C25: an error raised while executing one job changes no field of any other
\* job's record and nothing of the dispatcher, of the queue or of the other
\* executions, and only frees the slot of the job that failed; and in every
\* run in which stop() is never called, a job waiting behind a Failed one is
\* still dispatched and runs to its own end.
C25_FailureIsolation ==
    /\ [][\A j \in JobIds :
            JobFailed(j) =>
               /\ \A i \in DOMAIN jobs \ {j} : jobs'[i] = jobs[i]
               /\ \A i \in JobIds \ {j} : task'[i] = task[i]
               /\ worker' = worker
               /\ worker_task' = worker_task
               /\ queue' = queue
               /\ task_cancel' = task_cancel
               /\ running_tasks' = running_tasks \ {j}]_vars
    /\ ([]~stopping) =>
          \A i \in JobIds :
             (/\ \E j \in DOMAIN jobs : jobs[j].status = FAILED
              /\ i \in DOMAIN jobs /\ Waiting(i)
              /\ DispatcherUp)
                ~> (/\ i \in DOMAIN jobs
                    /\ task[i] = "done"
                    /\ jobs[i].status \in Terminal)

\* on a single slot a job has failed and the two jobs submitted behind it
\* have each run to completion
C25_Witness ==
    /\ max_concurrent = 1
    /\ DispatcherUp
    /\ \E j \in DOMAIN jobs :
          /\ jobs[j].status = FAILED
          /\ Cardinality({i \in DOMAIN jobs : Earlier(j, i)}) >= 2
          /\ \A i \in DOMAIN jobs :
                Earlier(j, i) => (jobs[i].status = COMPLETED /\ task[i] = "done")

\* self.jobs.values(): a dict keeps insertion order, and submit_job creates the
\* Job (created_at) and inserts it under its new id in one step, so the order
\* is that of created_at
JobsValues ==
    [k \in 1..Cardinality(DOMAIN jobs) |->
        jobs[CHOOSE j \in DOMAIN jobs : jobs[j].created_at = k]]

\* variant: the list is returned most recent first
ListJobs_NewestFirst(status) ==
    LET all == [k \in 1..Len(JobsValues) |-> JobsValues[Len(JobsValues) + 1 - k]]
        HasStatus(job) == job.status = status IN
    IF status # None THEN SelectSeq(all, HasStatus) ELSE all

\* list_jobs(status): status None is the call without a filter
ListJobs(status) ==
    LET HasStatus(job) == job.status = status IN
    IF status # None THEN SelectSeq(JobsValues, HasStatus) ELSE JobsValues

\* the list l holds exactly the jobs of the set S, each once
Lists(l, S) ==
    /\ Len(l) = Cardinality(S)
    /\ {l[k].id : k \in 1..Len(l)} = S
    /\ \A k \in 1..Len(l) : l[k] = jobs[l[k].id]

\* C26 as stated: list_jobs without a filter returns all known jobs most
\* recently submitted first, and with a filter exactly the jobs whose status
\* equals the filter.
C26_ListNewestFirst ==
    /\ Lists(ListJobs(None), DOMAIN jobs)
    /\ \A a, b \in 1..Len(ListJobs(None)) :
          a < b => ListJobs(None)[a].created_at > ListJobs(None)[b].created_at
    /\ \A s \in JobStatus :
          Lists(ListJobs(s), {j \in DOMAIN jobs : jobs[j].status = s})

\* C26 amended: list_jobs without a filter returns all known jobs in the
\* order of their submission, oldest first, and with a filter exactly the jobs
\* whose status equals the filter, in that same order.
C26_ListOldestFirst ==
    /\ Lists(ListJobs(None), DOMAIN jobs)
    /\ \A s \in JobStatus \cup {None} :
          \A a, b \in 1..Len(ListJobs(s)) :
             a < b => ListJobs(s)[a].created_at < ListJobs(s)[b].created_at
    /\ \A s \in JobStatus :
          Lists(ListJobs(s), {j \in DOMAIN jobs : jobs[j].status = s})

\* three jobs are listed, oldest first, and the filter on Running selects the
\* two that run, leaving out the first, which has ended
C26_Witness ==
    /\ Len(ListJobs(None)) = MaxJobs
    /\ ListJobs(None)[1].status \in Terminal
    /\ Len(ListJobs(RUNNING)) = 2
    /\ ListJobs(RUNNING)[1].created_at = 2

\* a Job record as the code leaves it at an await: the fields that go with
\* each status are all set, or all unset
Whole(job) ==
    CASE job.status = QUEUED ->
           /\ job.started_at = None /\ job.completed_at = None
           /\ job.result = None /\ job.error = None /\ job.progress = 0
      [] job.status = RUNNING ->
           /\ job.started_at = "set" /\ job.completed_at = None
           /\ job.result = None /\ job.error = None /\ job.progress = 0
      [] job.status = COMPLETED ->
           /\ job.started_at = "set" /\ job.completed_at = "set"
           /\ job.result # None /\ job.error = None /\ job.progress = 1
      [] job.status = FAILED ->
           /\ job.started_at = "set" /\ job.completed_at = "set"
           /\ job.result = None /\ job.error # None /\ job.progress = 0
      [] job.status = CANCELLED ->
           /\ (job.started_at = "set") <=> (job.completed_at = "set")
           /\ job.result = None /\ job.error = None /\ job.progress = 0

ExportFailed == StageFailed /\ CurrentStage = "export"

\* C28: the outputs of the three formats are recorded in the workflow only
\* together, after all three transcodes and uploads have succeeded; when the
\* transcode or the upload of any format fails none is recorded, the output of
\* the composition stays, and the job ends Failed.
C28_ExportAllOrNothing ==
    /\ [](workflow.kind = "plan" =>
            /\ "formats" \in workflow.outputs =>
                  /\ calls.export = Len(Formats)
                  /\ Returned("export")
                  /\ "final_video" \in workflow.outputs
                  /\ xpc.at = "returned"
            /\ Returned("export") => "formats" \in workflow.outputs
            /\ ExportFailed =>
                  /\ workflow.outputs = {"final_video"}
                  /\ jobs[ExecJob].status = FAILED
                  /\ jobs[ExecJob].result = None)
    /\ [][ExportFailed => workflow' = workflow]_all_vars

\* the third format failed after the first two were transcoded and uploaded
C28_Witness ==
    /\ ExportFailed
    /\ calls.export = Len(Formats)
    /\ workflow.outputs = {"final_video"}
    /\ jobs[ExecJob].status = FAILED

\* C29: a stage is reported complete, in workflow['progress'] and to the
\* callback, only after every one of its sub-units has finished and written
\* its output: keyframes only when the imagen call of every shot has returned
\* and every shot has its keyframe_uri, videos only when every shot has its
\* video_uri; and veo is called for a shot only when the keyframe stage is
\* complete and that shot has its keyframe_uri.
C29_FanIn ==
    /\ [](workflow.kind = "plan" =>
            /\ workflow.progress.keyframes = "complete" =>
                  /\ workflow.keyframe_uri = 1..workflow.shots
                  /\ \A i \in 1..workflow.shots : keyframe_tasks[i] = "ok"
            /\ workflow.progress.videos = "complete" =>
                  /\ workflow.video_uri = 1..workflow.shots
                  /\ calls.videos = workflow.shots
            /\ workflow.video_uri \subseteq workflow.keyframe_uri
            /\ \A k \in 1..Len(events) :
                  events[k][2] = "complete" =>
                     workflow.progress[events[k][1]] = "complete")
    /\ [][calls'.videos > calls.videos =>
            /\ xpc'.at = "videos"
            /\ xpc'.i \in workflow'.keyframe_uri
            /\ xpc'.i \notin workflow'.video_uri
            /\ workflow'.progress.keyframes = "complete"]_all_vars

\* the keyframe calls have all returned, every shot has its keyframe, and the
\* video of the last shot is being generated after that of the first
C29_Witness ==
    /\ workflow.shots = MaxShots
    /\ workflow.progress.keyframes = "complete"
    /\ workflow.keyframe_uri = 1..MaxShots
    /\ xpc = [at |-> "videos", i |-> MaxShots]
    /\ calls.videos = MaxShots
    /\ workflow.video_uri = 1..(MaxShots - 1)
    /\ workflow.progress.videos = "pending"

\* the events of stage s, in the order of their emission
EventsOf(s) ==
    LET OfStage(e) == e[1] = s IN SelectSeq(events, OfStage)

StageIndex(s) == CHOOSE k \in 1..Len(Stages) : Stages[k] = s

Entered(s) == \E k \in 1..Len(stage_log) : stage_log[k] = <<s, "enter">>

\* C30: when execute_workflow is given a callback, every stage it runs, all
\* five, the export included, emits started, then progress events with
\* non-decreasing percent, then complete with percent 100; and no event of a
\* later stage is emitted before the complete event of an earlier stage.
C30_EventOrder ==
    callback =>
       /\ \A k \in 1..Len(Stages) :
             LET s == Stages[k]
                 ev == EventsOf(s) IN
             /\ Entered(s) => (ev # <<>> /\ ev[1] = <<s, "started", 0>>)
             /\ Returned(s) => (ev # <<>> /\ ev[Len(ev)] = <<s, "complete", 100>>)
             /\ \A a \in 2..Len(ev) :
                   /\ ev[a][2] \in {"progress", "complete"}
                   /\ ev[a][2] = "complete" => (a = Len(ev) /\ Returned(s))
                   /\ ev[a][3] >= ev[a - 1][3]
       /\ \A a, b \in 1..Len(events) :
             a < b =>
                /\ StageIndex(events[a][1]) <= StageIndex(events[b][1])
                /\ events[a][1] # events[b][1] =>
                      \E c \in a..(b - 1) :
                         events[c] = <<events[a][1], "complete", 100>>

\* the capability calls of the stages in flight: the imagen calls of the
\* gather that have not ended, or the one call the execution is awaiting
CallsInFlight ==
    Cardinality({i \in ShotIds : keyframe_tasks[i] = "run"})
       + (IF xpc.at \in {"videos", "audio", "composition", "export"} THEN 1 ELSE 0)

\* C31 as stated: the number of capability calls of one stage in flight at
\* the same time stays within a bound that does not grow with the number of
\* shots: it stays below the number of shots of the largest plan.
C31_SubConcurrencyBound ==
    CallsInFlight < MaxShots

\* C31 amended: the keyframe stage starts the imagen calls of all the shots
\* together, with no bound other than the number of shots; every other stage
\* has one call in flight at a time (the videos are generated shot by shot),
\* and no call of a later stage is made while the execution is in the gather.
C31_FanOutUnbounded ==
    /\ [](workflow.kind = "plan" =>
            /\ CallsInFlight <= workflow.shots
            /\ xpc.at \in {"videos", "sleep", "audio", "composition", "export", "returned"}
                  => CallsInFlight <= 1)
    /\ [][(xpc'.at = "keyframes" /\ xpc.at # "keyframes") =>
             CallsInFlight' = workflow'.shots]_all_vars

\* the imagen calls of all the shots of the largest plan are in flight at once
C31_Witness ==
    /\ xpc.at = "keyframes"
    /\ workflow.shots = MaxShots
    /\ CallsInFlight = MaxShots
    /\ jobs[ExecJob].status = RUNNING

\* C32: while a job is Running the only actor that changes a field of its
\* record is its own execution task (on returning, raising or being
\* cancelled); cancel_job on a Running job signals the task and writes
\* nothing, and neither the dispatcher nor start() or stop() write to any
\* job record.
C32_SingleWriter ==
    /\ [][\A j \in DOMAIN jobs :
            (jobs[j].status = RUNNING /\ jobs'[j] # jobs[j]) =>
               /\ task[j] = "exec"
               /\ JobCompleted(j) \/ JobFailed(j) \/ JobCancelled(j)]_vars
    /\ [][\A j \in DOMAIN jobs :
            (jobs[j].status = RUNNING /\ CancelJob(j)) =>
               /\ jobs' = jobs
               /\ (task[j] = "exec" => j \in task_cancel')]_vars
    /\ [][(WorkerStep \/ Start \/ StopCall \/ StopReturn) => jobs' = jobs]_vars

\* a Running job has been signalled by cancel_job and its record is as its
\* execution task left it: Running, started, with nothing else set
C32_Witness ==
    \E j \in DOMAIN jobs :
       /\ j \in task_cancel
       /\ j \in cancel_called
       /\ task[j] = "exec"
       /\ jobs[j] = [Job(j, jobs[j].created_at) EXCEPT !.status = RUNNING,
                                                      !.started_at = "set"]

\* the dependencies of node n in the stored workflow
DependenciesOf(n) ==
    LET k == CHOOSE m \in 1..Len(gx_workflow) : gx_workflow[m].id = n IN
    gx_workflow[k].dependencies

\* C33: the node-graph executor runs the nodes in dependency order: a node is
\* set RUNNING only after every node listed in its dependencies has been set
\* COMPLETED, for every workflow without a dependency cycle and whatever the
\* order of workflow.nodes.
C33_DependencyOrder ==
    \A k \in 1..Len(execution.writes) :
       execution.writes[k][2] = RUNNING =>
          \A d \in DependenciesOf(execution.writes[k][1]) :
             \E m \in 1..(k - 1) : execution.writes[m] = <<d, COMPLETED>>

\* the execution tasks created and not ended
DqInFlight == {t \in DOMAIN dq_tasks : dq_tasks[t].pc \in {"new", "exec"}}

\* C34: each job is executed at most once and an id identifies one record:
\* submit_job with an id that is registered already does not replace the
\* record, the executor is never run twice on the same Job record, and never
\* more than max_concurrent executions are in flight at once.
C34_OneExecutionPerId ==
    /\ [][\A job_id \in DOMAIN dq_jobs :
            DqSubmit(job_id) => dq_jobs'[job_id] = dq_jobs[job_id]]_dq_vars
    /\ [](\A k \in DOMAIN dq_objects : dq_objects[k].runs <= 1)
    /\ [](Cardinality(DqInFlight) <= max_concurrent)

\* C35: stop() loses no queued work: a job that is Queued and has not been
\* dispatched is in the FIFO, or in the hands of a dispatcher waiting for a
\* free slot, at every moment, before, during and after a stop(), so that
\* after a later start() it is dispatched.
C35_StopLosesNoJob ==
    \A j \in DOMAIN jobs :
       (jobs[j].status = QUEUED /\ task[j] = "none") => Waiting(j)

\* C36: the timestamps follow the lifecycle: started_at is set in every job
\* that is or has been Running (a job without it is Queued, or was cancelled
\* before it ran), and completed_at is set if and only if the job's status
\* is Completed, Failed or Cancelled, a job cancelled while Queued included.
C36_Timestamps ==
    \A j \in DOMAIN jobs :
       /\ jobs[j].status = RUNNING => jobs[j].started_at = "set"
       /\ jobs[j].started_at = None => jobs[j].status \in {QUEUED, CANCELLED}
       /\ jobs[j].completed_at = "set" <=> jobs[j].status \in Terminal

\* the steps of StepNames before the step called name
StepsBefore(name) ==
    LET k == CHOOSE i \in 1..Len(StepNames) : StepNames[i] = name
    IN  SubSeq(StepNames, 1, k - 1)

\* C37: in the orchestrator a workflow's status only moves PENDING ->
\* RUNNING -> {COMPLETED, FAILED}; a COMPLETED workflow's steps are exactly
\* the six step names in order; and when a step raises the workflow becomes
\* FAILED with error set and its steps are exactly the steps completed
\* before the failing one (for an unknown video model: the three steps
\* before video_generation).
C37_StatusAndSteps ==
    /\ [](\A w \in DOMAIN workflows :
            /\ workflows[w].status \in {PENDING, RUNNING, COMPLETED, FAILED}
            /\ workflows[w].status = COMPLETED => workflows[w].steps = StepNames
            /\ workflows[w].status = FAILED =>
                  /\ workflows[w].error # None
                  /\ \E name \in {"gemini_director", "scene_breakdown", "video_generation"} :
                        workflows[w].steps = StepsBefore(name)
                  /\ workflows[w].error = "Unknown model" <=>
                        workflows[w].steps = StepsBefore("video_generation")
                  /\ workflows[w].steps = StepsBefore("video_generation") =>
                        workflows[w].model \notin VideoModels)
    /\ [][\A w \in DOMAIN workflows :
            /\ workflows'[w].status # workflows[w].status =>
                  \/ workflows[w].status = PENDING /\ workflows'[w].status = RUNNING
                  \/ workflows[w].status = RUNNING
                        /\ workflows'[w].status \in {COMPLETED, FAILED}
            /\ (workflows[w].status = RUNNING /\ workflows'[w].status = FAILED) =>
                  /\ workflows'[w].error # None
                  /\ workflows'[w].steps =
                        IF wf_tasks[w].at = "imagen_generation"
                        THEN StepsBefore("video_generation")
                        ELSE StepsBefore(wf_tasks[w].at)]_wo_vars

\* one workflow failed in video_generation on a model _generate_video does
\* not know, and another one failed in scene_breakdown
C37_Witness ==
    \E w, v \in DOMAIN workflows :
       /\ workflows[w].status = FAILED
       /\ workflows[w].model = "sora"
       /\ workflows[w].steps = <<"gemini_director", "scene_breakdown", "imagen_generation">>
       /\ workflows[v].status = FAILED
       /\ workflows[v].steps = <<"gemini_director">>

\* C38: the running-task table and the job statuses stay consistent: every
\* job whose status is Running has its entry in the running-task table (a
\* table keyed by job id holds at most one), and no job in a terminal state
\* has an entry in it.
C38_TableConsistent ==
    \A j \in DOMAIN jobs :
       /\ jobs[j].status = RUNNING => j \in running_tasks
       /\ jobs[j].status \in Terminal => j \notin running_tasks

====
